---- MODULE Spec2Model ----
(***************************************************************************)
(* PCA9685_Driver: a register-level driver for the PCA9685 PWM controller. *)
(* The driver state is the object's fields; the environment is the I2C bus.*)
(* The bus is modelled as the transactions the driver issues (wire) and    *)
(* the register file of the device that answers the primary address       *)
(* (chip): the driver only ever reads from its primary address, so no     *)
(* other device can influence what it does.  A register holds the last     *)
(* byte written to it.                                                     *)
(*                                                                         *)
(* float arguments are modelled as exact rationals h / FreqDen (h an       *)
(* integer number of 1/FreqDen Hz); the float -> integer conversions of    *)
(* the code (casts, integer division) are modelled as the truncations they *)
(* are, float rounding error is not modelled.  int is taken to be 32 bits  *)
(* wide, and the reference clock to be positive (at 0 Hz the prescaler     *)
(* arithmetic is 0 / 0).                                                   *)
(***************************************************************************)
EXTENDS Integers, Sequences, FiniteSets, TLC

VARIABLES
    _i2c_address,     \* PCA9685_Driver::_i2c_address
    _osillator_freq,  \* PCA9685_Driver::_osillator_freq
    chip,             \* registers of the device at _i2c_address
    wire,             \* bus transactions issued by the most recent call
    call,             \* the most recent call: operation, arguments, result
    lastSleep,        \* MODE1 before sleep() when the previous call was sleep()
    readback          \* the last setPWMFrequency() and what happened since

vars == <<_i2c_address, _osillator_freq, chip, wire, call, lastSleep, readback>>

(***************************************************************************)
(* Program constants (PCA9685_Driver.h)                                    *)
(***************************************************************************)
OSC_FREQ == 25000000

PCA9685_I2C_ADDR == 64
PCA9685_I2C_ALL_CALL == 112
PCA9685_SUB_CALL_1 == 113
PCA9685_SUB_CALL_2 == 114
PCA9685_SUB_CALL_3 == 115

PCA9685_MODE1 == 0
PCA9685_MODE2 == 1
PCA9685_LED0_ON_L == 6
PCA9685_ALL_LED_ON_L == 250
PCA9685_PRESCALE == 254

MODE1_SLEEP == 16
MODE1_AI == 32
MODE1_EXTCLK == 64
MODE1_RESTART == 128

MODE2_OUTDRV == 4

EAddressType == {"Normal", "AllCall", "SubCall1", "SubCall2", "SubCall3"}
OpenDrain == 0
TotemPole == 1
EOutputType == {OpenDrain, TotemPole}

\* the four alternate addresses are fields with default member initialisers
\* and are never assigned afterwards
_i2c_allCall_address == PCA9685_I2C_ALL_CALL
_i2c_sub1_address == PCA9685_SUB_CALL_1
_i2c_sub2_address == PCA9685_SUB_CALL_2
_i2c_sub3_address == PCA9685_SUB_CALL_3

(***************************************************************************)
(* Bounds of the model                                                     *)
(***************************************************************************)
\* float frequencies are multiples of 1/FreqDen Hz
FreqDen == 2

Byte == 0..255
Regs == {PCA9685_MODE1, PCA9685_MODE2, PCA9685_PRESCALE}

(***************************************************************************)
(* C integer operators on non-negative values                              *)
(***************************************************************************)
RECURSIVE BitAnd(_, _)
BitAnd(x, y) ==
    IF x = 0 \/ y = 0 THEN 0
    ELSE (x % 2) * (y % 2) + 2 * BitAnd(x \div 2, y \div 2)

RECURSIVE BitOr(_, _)
BitOr(x, y) ==
    IF x = 0 THEN y
    ELSE IF y = 0 THEN x
    ELSE (IF x % 2 = 1 \/ y % 2 = 1 THEN 1 ELSE 0) + 2 * BitOr(x \div 2, y \div 2)

\* ~mask of an int, kept to its low 16 bits (int is at least 16 bits wide and
\* every operand it is and-ed with is a uint8_t)
BitNot(mask) == 65535 - mask

\* conversion of an int to uint8_t
U8(x) == x % 256

(***************************************************************************)
(* The bus                                                                 *)
(***************************************************************************)
\* getAddress with the SubCall2 case falling into SubCall1
getAddressSub2AsSub1(addressType) ==
    CASE addressType = "AllCall" -> _i2c_allCall_address
      [] addressType \in {"SubCall1", "SubCall2"} -> _i2c_sub1_address
      [] addressType = "SubCall3" -> _i2c_sub3_address
      [] OTHER -> _i2c_address

\* getAddress: the stored address an address selector stands for
getAddress(addressType) ==
    CASE addressType = "AllCall" -> _i2c_allCall_address
      [] addressType = "SubCall1" -> _i2c_sub1_address
      [] addressType = "SubCall2" -> _i2c_sub2_address
      [] addressType = "SubCall3" -> _i2c_sub3_address
      [] OTHER -> _i2c_address

\* A bus state is [chip, wire].  A transaction is logged as its kind, the
\* address it is sent to and the bytes written inside it.
Transmit(st, kind, address, bytes) ==
    [st EXCEPT !.wire = Append(@, [t |-> kind, addr |-> address, bytes |-> bytes])]

\* a register of the device at the primary address takes the byte when the
\* transaction is addressed to it
Store(st, address, reg_addr, data) ==
    IF address = _i2c_address /\ reg_addr \in DOMAIN st.chip
    THEN [st EXCEPT !.chip[reg_addr] = data]
    ELSE st

\* readByte: select the register at _i2c_address, then request one byte
readByteBus(st, reg_addr) == Transmit(st, "read", _i2c_address, <<reg_addr>>)
readByteValue(st, reg_addr) == st.chip[reg_addr]

\* writeByte: one transaction to the selected address: register, data
writeByte(st, addressType, reg_addr, data) ==
    Store(Transmit(st, "write", getAddress(addressType), <<reg_addr, data>>),
          getAddress(addressType), reg_addr, data)

\* the write transactions of a log, in order
Writes(w) == SelectSeq(w, LAMBDA x : x.t = "write")

(***************************************************************************)
(* Frequency arithmetic                                                    *)
(***************************************************************************)
\* float -> uint32_t (the argument of setOscillFrequency): truncation
FloatToU32(h) == h \div FreqDen

\* int upper_limit = (int)(_osillator_freq / 16384)
UpperLimit(osc) == osc \div 16384

\* frequency < 1 ? 1 : frequency > upper_limit ? upper_limit : frequency
LimitFrequency(osc, h) ==
    IF h < FreqDen THEN FreqDen
    ELSE IF h > UpperLimit(osc) * FreqDen THEN UpperLimit(osc) * FreqDen
    ELSE h

\* (uint8_t) of  _osillator_freq / (4096 * frequency) + 0.5 - 1  limited to
\* 0x03..0xff.  With frequency = h / FreqDen the value is num / den below.
\* frequency = 0 divides a positive oscillator frequency by 0.0: +inf, which
\* the limit turns into 0xff.  "value > 0xff" is written with the quotient to
\* keep 255 * den inside the integers of the model checker.
PrescaleByte(osc, h) ==
    IF h = 0 THEN 255
    ELSE LET num == 2 * osc * FreqDen - 4096 * h
             den == 8192 * h
         IN  IF num < 3 * den THEN 3
             ELSE IF num \div den >= 255 THEN 255
             ELSE num \div den

\* what setPWMFrequency returns, _osillator_freq / (4096 * ((uint8_t)
\* prescale_value + 1)): uint32_t divided by int (taken to be 32 bits wide),
\* an integer division whose quotient is converted to float afterwards
setPWMFrequencyReturn(osc, prescale) == osc \div (4096 * (prescale + 1))

\* getPWMFrequency dividing by the prescaler instead of prescaler + 1
getPWMFrequencyNoPlusOne(osc, prescale) == osc \div (4096 * prescale)

\* what getPWMFrequency returns for the prescaler it reads,
\* _osillator_freq / (4096 * (readByte(PCA9685_PRESCALE) + 1)), likewise
getPWMFrequencyReturn(osc, prescale) == osc \div (4096 * (prescale + 1))

(***************************************************************************)
(* The operations as functions of the bus state                            *)
(***************************************************************************)
\* the value sleep() writes to MODE1
sleepValue(mode1) == BitOr(mode1, MODE1_SLEEP)

\* wakeUp() with the mask not complemented
wakeUpValueNoComplement(mode1) == BitAnd(mode1, MODE1_SLEEP)

\* the value wakeUp() writes to MODE1
wakeUpValue(mode1) == BitAnd(mode1, BitNot(MODE1_SLEEP))

\* restart(): MODE1 <- RESTART (then delay(10))
restartBus(st, addressType) ==
    writeByte(st, addressType, PCA9685_MODE1, MODE1_RESTART)

\* setMode1 / setMode2, with the register reads of the debug output
setModeBus(st, reg_addr, value, addressType) ==
    LET s1 == readByteBus(st, reg_addr)
        s2 == writeByte(s1, addressType, reg_addr, value)
    IN  readByteBus(s2, reg_addr)

\* setPWMFrequency writing the prescaler before putting the chip to sleep
setPWMFrequencyWritesPrescaleFirst(st, addressType, current_mode1, prescale) ==
    LET s1 == writeByte(st, addressType, PCA9685_PRESCALE, prescale)
        s2 == writeByte(s1, addressType, PCA9685_MODE1,
                        BitOr(BitAnd(current_mode1, BitNot(MODE1_RESTART)), MODE1_SLEEP))
        s3 == writeByte(s2, addressType, PCA9685_MODE1, current_mode1)
    IN  writeByte(s3, addressType, PCA9685_MODE1,
                  U8(BitOr(BitOr(current_mode1, MODE1_RESTART), MODE1_AI)))

\* the register writes of setPWMFrequency once the prescaler is computed:
\* sleep, prescaler, the old mode1, (delay(5)), restart and auto increment
setPWMFrequencyWrites(st, addressType, current_mode1, prescale) ==
    LET s1 == writeByte(st, addressType, PCA9685_MODE1,
                        BitOr(BitAnd(current_mode1, BitNot(MODE1_RESTART)), MODE1_SLEEP))
        s2 == writeByte(s1, addressType, PCA9685_PRESCALE, prescale)
        s3 == writeByte(s2, addressType, PCA9685_MODE1, current_mode1)
    IN  writeByte(s3, addressType, PCA9685_MODE1,
                  U8(BitOr(BitOr(current_mode1, MODE1_RESTART), MODE1_AI)))

\* setPWMFrequency: [st: the bus afterwards, ret: the value returned]
setPWMFrequencyRun(st, osc, h, addressType) ==
    LET prescale == PrescaleByte(osc, LimitFrequency(osc, h))
        s1 == readByteBus(st, PCA9685_MODE1)
        current_mode1 == readByteValue(st, PCA9685_MODE1)
        s2 == readByteBus(s1, PCA9685_MODE1)   \* debug output
        s3 == setPWMFrequencyWrites(s2, addressType, current_mode1, prescale)
        s4 == readByteBus(s3, PCA9685_MODE1)   \* debug output
    IN  [st |-> s4, ret |-> setPWMFrequencyReturn(osc, prescale)]

\* the register writes of setExtClock: sleep, external clock, prescaler,
\* wake up with restart and auto increment
setExtClockWrites(st, addressType, mode1, prescale) ==
    LET mode == BitOr(BitAnd(mode1, BitNot(MODE1_RESTART)), MODE1_SLEEP)
        s1 == writeByte(st, addressType, PCA9685_MODE1, mode)
        modeExt == BitOr(mode, MODE1_EXTCLK)
        s2 == writeByte(s1, addressType, PCA9685_MODE1, modeExt)
        s3 == writeByte(s2, addressType, PCA9685_PRESCALE, prescale)
    IN  writeByte(s3, addressType, PCA9685_MODE1,
                  U8(BitOr(BitOr(BitAnd(modeExt, BitNot(MODE1_SLEEP)), MODE1_RESTART),
                           MODE1_AI)))

\* setExtClock computing the prescaler from the oscillator frequency cached
\* before the call
setExtClockPrescaleOldOscillator(extH, pwmH) ==
    PrescaleByte(_osillator_freq, LimitFrequency(_osillator_freq, pwmH))

\* the prescaler setExtClock computes: the oscillator frequency is the
\* external frequency by then (setOscillFrequency(frequency) comes first)
setExtClockPrescale(extH, pwmH) ==
    PrescaleByte(FloatToU32(extH), LimitFrequency(FloatToU32(extH), pwmH))

\* the value setOutputType writes to MODE2: the switch computes
\* mode | MODE2_OUTDRV or mode & ~MODE2_OUTDRV and drops it, mode is unchanged
setOutputTypeValue(mode, type) == mode

\* the burst with the high byte of each value before its low byte
burstBytesHighFirst(first_reg, on, off) ==
    << U8(first_reg),
       BitAnd(on \div 256, 255), BitAnd(on, 255),
       BitAnd(off \div 256, 255), BitAnd(off, 255) >>

\* the bytes of the transaction of setPWMOutput / setAllPWMOutputs
\* (TwoWire::write takes each int as a uint8_t)
burstBytes(first_reg, on, off) ==
    << U8(first_reg),
       BitAnd(on, 255), BitAnd(on \div 256, 255),
       BitAnd(off, 255), BitAnd(off \div 256, 255) >>

\* first register of an output's block of four
outputRegister(output) == PCA9685_LED0_ON_L + 4 * output

(***************************************************************************)
(* State machine: one action per public operation                          *)
(***************************************************************************)
NoSleep == [m1 |-> -1, addressType |-> "none", age |-> 0]
NoReadback == [valid |-> FALSE, ret |-> 0, landed |-> FALSE, osc |-> 0,
               prescaleWritten |-> FALSE]

Bus == [chip |-> chip, wire |-> <<>>]

PrescaleWritten(w) ==
    \E i \in DOMAIN w : w[i].t = "write" /\ w[i].bytes[1] = PCA9685_PRESCALE

\* The end of a call: the bus state st and the oscillator frequency osc it
\* leaves, and the record of the call: a1..a3 are its arguments in order,
\* m1, m2 and osc are MODE1, MODE2 and _osillator_freq when it started.
\* lastSleep remembers MODE1 as it was before a sleep() until the call after
\* the next one; readback the value the last setPWMFrequency() returned,
\* whether its writes went to the primary address, the oscillator frequency
\* it used and whether PRESCALE has been written since.
Done(op, addressType, a1, a2, a3, ret, st, osc) ==
    /\ chip' = st.chip
    /\ wire' = st.wire
    /\ _osillator_freq' = osc
    /\ call' = [op |-> op, addressType |-> addressType, a1 |-> a1, a2 |-> a2,
                a3 |-> a3, ret |-> ret, m1 |-> chip[PCA9685_MODE1],
                m2 |-> chip[PCA9685_MODE2], osc |-> _osillator_freq]
    /\ lastSleep' = IF op = "sleep"
                    THEN [m1 |-> chip[PCA9685_MODE1], addressType |-> addressType,
                          age |-> 0]
                    ELSE IF op = "wakeUp" /\ lastSleep # NoSleep /\ lastSleep.age = 0
                    THEN [lastSleep EXCEPT !.age = 1]
                    ELSE NoSleep
    /\ readback' = IF op = "setPWMFrequency"
                   THEN [valid |-> TRUE, ret |-> ret,
                         landed |-> (getAddress(addressType) = _i2c_address),
                         osc |-> osc, prescaleWritten |-> FALSE]
                   ELSE [readback EXCEPT
                           !.prescaleWritten = @ \/ PrescaleWritten(st.wire)]

begin(h) ==
    LET s1 == restartBus(Bus, "Normal")
        r == setPWMFrequencyRun(s1, OSC_FREQ, h, "Normal")
    IN  /\ Done("begin", "Normal", h, 0, 0, 0, r.st, OSC_FREQ)
        /\ UNCHANGED _i2c_address

restart(addressType) ==
    /\ Done("restart", addressType, 0, 0, 0, 0, restartBus(Bus, addressType),
            _osillator_freq)
    /\ UNCHANGED _i2c_address

sleep(addressType) ==
    LET s1 == readByteBus(Bus, PCA9685_MODE1)
        s2 == writeByte(s1, addressType, PCA9685_MODE1,
                        sleepValue(readByteValue(Bus, PCA9685_MODE1)))
    IN  /\ Done("sleep", addressType, 0, 0, 0, 0, s2, _osillator_freq)
        /\ UNCHANGED _i2c_address

wakeUp(addressType) ==
    LET s1 == readByteBus(Bus, PCA9685_MODE1)
        s2 == writeByte(s1, addressType, PCA9685_MODE1,
                        wakeUpValue(readByteValue(Bus, PCA9685_MODE1)))
    IN  /\ Done("wakeUp", addressType, 0, 0, 0, 0, s2, _osillator_freq)
        /\ UNCHANGED _i2c_address

setMode1(value, addressType) ==
    /\ Done("setMode1", addressType, value, 0, 0, 0,
            setModeBus(Bus, PCA9685_MODE1, value, addressType), _osillator_freq)
    /\ UNCHANGED _i2c_address

setMode2(value, addressType) ==
    /\ Done("setMode2", addressType, value, 0, 0, 0,
            setModeBus(Bus, PCA9685_MODE2, value, addressType), _osillator_freq)
    /\ UNCHANGED _i2c_address

readRegister(reg_addr) ==
    /\ Done("readRegister", "Normal", reg_addr, 0, 0, readByteValue(Bus, reg_addr),
            readByteBus(Bus, reg_addr), _osillator_freq)
    /\ UNCHANGED _i2c_address

writeRegister(reg_addr, data, addressType) ==
    /\ Done("writeRegister", addressType, reg_addr, data, 0, 0,
            writeByte(Bus, addressType, reg_addr, data), _osillator_freq)
    /\ UNCHANGED _i2c_address

setExtClock(extH, pwmH, addressType) ==
    LET s1 == readByteBus(Bus, PCA9685_MODE1)
        s2 == setExtClockWrites(s1, addressType, readByteValue(Bus, PCA9685_MODE1),
                                setExtClockPrescale(extH, pwmH))
        s3 == readByteBus(s2, PCA9685_MODE1)   \* debug output
    IN  /\ Done("setExtClock", addressType, extH, pwmH, 0, 0, s3, FloatToU32(extH))
        /\ UNCHANGED _i2c_address

setPWMFrequency(h, addressType) ==
    LET r == setPWMFrequencyRun(Bus, _osillator_freq, h, addressType)
    IN  /\ Done("setPWMFrequency", addressType, h, 0, 0, r.ret, r.st, _osillator_freq)
        /\ UNCHANGED _i2c_address

getPWMFrequency ==
    /\ Done("getPWMFrequency", "Normal", 0, 0, 0,
            getPWMFrequencyReturn(_osillator_freq, readByteValue(Bus, PCA9685_PRESCALE)),
            readByteBus(Bus, PCA9685_PRESCALE), _osillator_freq)
    /\ UNCHANGED _i2c_address

setOutputType(type, addressType) ==
    LET s1 == readByteBus(Bus, PCA9685_MODE2)
        s2 == writeByte(s1, addressType, PCA9685_MODE2,
                        setOutputTypeValue(readByteValue(Bus, PCA9685_MODE2), type))
        s3 == readByteBus(s2, PCA9685_MODE2)   \* debug output
    IN  /\ Done("setOutputType", addressType, type, 0, 0, 0, s3, _osillator_freq)
        /\ UNCHANGED _i2c_address

setPWMOutput(output, on, off, addressType) ==
    /\ Done("setPWMOutput", addressType, output, on, off, 0,
            Transmit(Bus, "write", getAddress(addressType),
                     burstBytes(outputRegister(output), on, off)),
            _osillator_freq)
    /\ UNCHANGED _i2c_address

setAllPWMOutputs(on, off, addressType) ==
    /\ Done("setAllPWMOutputs", addressType, on, off, 0, 0,
            Transmit(Bus, "write", getAddress(addressType),
                     burstBytes(PCA9685_ALL_LED_ON_L, on, off)),
            _osillator_freq)
    /\ UNCHANGED _i2c_address

getOscillFrequency ==
    /\ Done("getOscillFrequency", "Normal", 0, 0, 0, _osillator_freq, Bus,
            _osillator_freq)
    /\ UNCHANGED _i2c_address

setOscillFrequency(frequency) ==
    /\ Done("setOscillFrequency", "Normal", frequency, 0, 0, 0, Bus, frequency)
    /\ UNCHANGED _i2c_address

(***************************************************************************)
(* Inputs and specifications                                               *)
(***************************************************************************)
\* primary addresses given to the constructor: the default, and one that
\* coincides with the all-call address
PrimaryAddresses == {PCA9685_I2C_ADDR, PCA9685_I2C_ALL_CALL}

\* reference clocks in Hz (positive; the external clock may be slow)
OscFreqs == {10000, 1000000, OSC_FREQ, 50000000}

\* requested PWM frequencies, in 1/FreqDen Hz: whole numbers of Hz around
\* the limits, and two fractional ones
TargetHz == {0, 1, 5, 200, 1000, 1525, 1526, 100000}
Targets == {f * FreqDen : f \in TargetHz} \cup {1, 1525 * FreqDen + 1}

\* register values: the power-on defaults of the header's comments and
\* values with the sleep, restart, auto-increment and external clock bits
Mode1Samples == {0, 1, 17, 33, 145, 255}
Mode2Samples == {0, 4, 12, 27, 251}
PrescaleSamples == {3, 5, 30, 255}

\* 16-bit on / off values, inside and outside 0..4095
OnSamples == {0, 256, 4095, 43981}
OffSamples == {255, 2048, 65535}
Outputs == 0..15

InitWith(addresses, oscs, mode1s, mode2s, prescales) ==
    /\ _i2c_address \in addresses
    /\ _osillator_freq \in oscs     \* not initialised by the constructors
    /\ \E m1 \in mode1s, m2 \in mode2s, pre \in prescales :
          chip = [r \in Regs |-> IF r = PCA9685_MODE1 THEN m1
                                 ELSE IF r = PCA9685_MODE2 THEN m2 ELSE pre]
    /\ wire = <<>>
    /\ call = [op |-> "construct", addressType |-> "Normal", a1 |-> 0, a2 |-> 0,
               a3 |-> 0, ret |-> 0, m1 |-> 0, m2 |-> 0, osc |-> 0]
    /\ lastSleep = NoSleep
    /\ readback = NoReadback

\* Every operation, on a device in its power-on state
Init == InitWith(PrimaryAddresses, {OSC_FREQ}, {17}, {4}, {30})

Next ==
    \/ \E h \in {1000 * FreqDen} : begin(h)
    \/ \E a \in EAddressType : restart(a)
    \/ \E a \in EAddressType : sleep(a)
    \/ \E a \in EAddressType : wakeUp(a)
    \/ \E v \in {33}, a \in EAddressType : setMode1(v, a)
    \/ \E v \in {27}, a \in EAddressType : setMode2(v, a)
    \/ \E r \in Regs : readRegister(r)
    \/ \E r \in {PCA9685_PRESCALE}, d \in {5}, a \in EAddressType : writeRegister(r, d, a)
    \/ \E e \in {OSC_FREQ * FreqDen}, h \in {200 * FreqDen}, a \in EAddressType :
          setExtClock(e, h, a)
    \/ \E h \in {50 * FreqDen}, a \in EAddressType : setPWMFrequency(h, a)
    \/ getPWMFrequency
    \/ \E t \in {TotemPole}, a \in EAddressType : setOutputType(t, a)
    \/ \E o \in {15}, on \in {0}, off \in {2048}, a \in EAddressType :
          setPWMOutput(o, on, off, a)
    \/ \E on \in {0}, off \in {4095}, a \in EAddressType : setAllPWMOutputs(on, off, a)
    \/ getOscillFrequency
    \/ \E f \in {OSC_FREQ} : setOscillFrequency(f)

Spec == Init /\ [][Next]_vars

\* The frequency arithmetic: every oscillator frequency, every target
InitFreq == InitWith(PrimaryAddresses, OscFreqs, {17}, {4}, PrescaleSamples)

NextFreq ==
    \/ \E f \in OscFreqs : setOscillFrequency(f)
    \/ \E h \in Targets, a \in EAddressType : setPWMFrequency(h, a)
    \/ getOscillFrequency

SpecFreq == InitFreq /\ [][NextFreq]_vars

\* Reading the frequency back, with what may come between the two calls
InitReadback == InitWith(PrimaryAddresses, {OSC_FREQ}, {17}, {4}, {30})

NextReadback ==
    \/ \E f \in {OSC_FREQ, 50000000} : setOscillFrequency(f)
    \/ \E h \in {50 * FreqDen, 1000 * FreqDen, 100000 * FreqDen}, a \in EAddressType :
          setPWMFrequency(h, a)
    \/ getPWMFrequency
    \/ \E d \in {5, 30}, a \in EAddressType : writeRegister(PCA9685_PRESCALE, d, a)
    \/ \E a \in EAddressType : sleep(a)

SpecReadback == InitReadback /\ [][NextReadback]_vars

\* sleep and wakeUp on every MODE1 value
InitSleep == InitWith(PrimaryAddresses, {OSC_FREQ}, Byte, {4}, {30})

NextSleep ==
    \/ \E a \in EAddressType : sleep(a)
    \/ \E a \in EAddressType : wakeUp(a)
    \/ \E a \in EAddressType : restart(a)

SpecSleep == InitSleep /\ [][NextSleep]_vars

\* setPWMFrequency on every MODE1 value
InitPrescale == InitWith(PrimaryAddresses, {OSC_FREQ}, Byte, {4}, {30})

NextPrescale ==
    \/ \E h \in {0, 1000 * FreqDen}, a \in EAddressType : setPWMFrequency(h, a)
    \/ \E d \in {3}, a \in {"Normal"} : writeRegister(PCA9685_PRESCALE, d, a)

SpecPrescale == InitPrescale /\ [][NextPrescale]_vars

\* setExtClock on every MODE1 value
InitExtClock == InitWith(PrimaryAddresses, {OSC_FREQ}, Byte, {4}, {30})

NextExtClock ==
    \/ \E e \in {10000 * FreqDen, 50000000 * FreqDen + 1},
          h \in {0, 200 * FreqDen}, a \in EAddressType :
          setExtClock(e, h, a)
    \/ \E f \in {OSC_FREQ} : setOscillFrequency(f)

SpecExtClock == InitExtClock /\ [][NextExtClock]_vars

\* setOutputType on every MODE2 value
InitOutputType == InitWith(PrimaryAddresses, {OSC_FREQ}, {17}, Byte, {30})

NextOutputType ==
    \/ \E t \in EOutputType, a \in EAddressType : setOutputType(t, a)
    \/ \E v \in Mode2Samples, a \in EAddressType : setMode2(v, a)

SpecOutputType == InitOutputType /\ [][NextOutputType]_vars

\* The output registers
InitOutput == InitWith(PrimaryAddresses, {OSC_FREQ}, {17}, {4}, {30})

NextOutput ==
    \/ \E o \in Outputs, on \in OnSamples, off \in OffSamples, a \in EAddressType :
          setPWMOutput(o, on, off, a)
    \/ \E on \in OnSamples, off \in OffSamples, a \in EAddressType :
          setAllPWMOutputs(on, off, a)

SpecOutput == InitOutput /\ [][NextOutput]_vars

(***************************************************************************)
(* Vocabulary of the properties                                            *)
(***************************************************************************)
\* the address an address selector must reach (PCA9685_Driver.h: primary,
\* all-call 0x70, sub-call 0x71, 0x72, 0x73)
StoredAddress(addressType) ==
    CASE addressType = "Normal" -> _i2c_address
      [] addressType = "AllCall" -> 112
      [] addressType = "SubCall1" -> 113
      [] addressType = "SubCall2" -> 114
      [] addressType = "SubCall3" -> 115

\* the call's selector stands for the primary address
Landed == StoredAddress(call.addressType) = _i2c_address

HasBit(m, b) == (m \div b) % 2 = 1
WithBit(m, b) == IF HasBit(m, b) THEN m ELSE m + b
WithoutBit(m, b) == IF HasBit(m, b) THEN m - b ELSE m

\* a single-register write transaction of the current call
W(reg, data) ==
    [t |-> "write", addr |-> StoredAddress(call.addressType), bytes |-> <<reg, data>>]

\* the byte the current call wrote to PRESCALE (-1 when it wrote none)
WrittenPrescale ==
    LET ws == Writes(wire)
        is == {i \in DOMAIN ws : ws[i].bytes[1] = 254}
    IN  IF is = {} THEN -1 ELSE ws[CHOOSE i \in is : TRUE].bytes[2]

\* floor(osc / (4096 f) + 0.5) - 1 clamped to [3, 255], f = h / FreqDen > 0
RoundedPrescale(osc, h) ==
    LET v == ((2 * osc * FreqDen + 4096 * h) \div (8192 * h)) - 1
    IN  IF v < 3 THEN 3 ELSE IF v > 255 THEN 255 ELSE v

\* h / FreqDen lies in [1, osc / 16384]
InRange(osc, h) == h >= FreqDen /\ h <= (osc * FreqDen) \div 16384

\* the outcome of a setPWMFrequency call: the prescaler written, the return
Outcome == <<WrittenPrescale, call.ret>>

\* the outcome setPWMFrequency has for target h / FreqDen at oscillator osc
OutcomeFor(osc, h) ==
    LET r == setPWMFrequencyRun(Bus, osc, h, "Normal")
        ws == Writes(r.st.wire)
    IN  <<ws[2].bytes[2], r.ret>>

(***************************************************************************)
(* C1 - C3: the frequency arithmetic (SpecFreq)                            *)
(***************************************************************************)
\* C1, first half: for a target in [1, osc / 16384] the prescaler written
\* is floor(osc / (4096 target) + 0.5) - 1 clamped to [3, 255].
C1_PrescalePart ==
    (call.op = "setPWMFrequency" /\ InRange(call.osc, call.a1))
        => /\ WrittenPrescale = RoundedPrescale(call.osc, call.a1)
           /\ WrittenPrescale \in 3..255

\* C1: for every oscillator frequency and every target in [1, osc / 16384]
\* setPWMFrequency writes that prescaler and the value it returns equals
\* osc / (4096 (prescale + 1)): the returned value times 4096 (prescale + 1)
\* is the oscillator frequency.
C1_PrescaleAndActualFrequency ==
    (call.op = "setPWMFrequency" /\ InRange(call.osc, call.a1))
        => /\ WrittenPrescale = RoundedPrescale(call.osc, call.a1)
           /\ WrittenPrescale \in 3..255
           /\ call.ret * (4096 * (WrittenPrescale + 1)) = call.osc

\* C2: at 25 MHz setPWMFrequency(1000) programs prescale 5 and returns the
\* exact quotient 25000000 / (4096 * 6), not the integer 1017.
C2_ExactFrequencyAt1000Hz ==
    (call.op = "setPWMFrequency" /\ call.osc = 25000000 /\ call.a1 = 1000 * FreqDen)
        => /\ WrittenPrescale = 5
           /\ call.ret * (4096 * 6) = 25000000
           /\ call.ret # 1017

\* C3: every target below 1 behaves as target 1 and every target above
\* osc / 16384 behaves as that upper limit (the largest target of the model
\* not above it), in the prescaler written and in the value returned.
C3_TargetsOutsideBehaveAsLimits ==
    call.op = "setPWMFrequency"
        => /\ call.a1 < FreqDen => Outcome = OutcomeFor(call.osc, FreqDen)
           /\ call.a1 > (call.osc * FreqDen) \div 16384
                  => Outcome = OutcomeFor(call.osc, (call.osc * FreqDen) \div 16384)

\* C3 at 25 MHz alone: targets 0 and 100000 behave as 1 and 1526.
C3_At25MHz ==
    (call.op = "setPWMFrequency" /\ call.osc = 25000000)
        => /\ call.a1 = 0 => Outcome = OutcomeFor(25000000, FreqDen)
           /\ call.a1 = 100000 * FreqDen => Outcome = OutcomeFor(25000000, 1526 * FreqDen)

(***************************************************************************)
(* C4: sleep and wakeUp (SpecSleep)                                        *)
(***************************************************************************)
\* the call before this wakeUp() was sleep() with the same selector
AfterSleepWakeUp ==
    /\ call.op = "wakeUp"
    /\ lastSleep.age = 1
    /\ lastSleep.addressType = call.addressType

\* C4 as stated, for the selectors that stand for the primary address:
\* sleep() sets the SLEEP bit of MODE1 and changes no other bit, wakeUp()
\* clears it and changes no other bit, and after sleep() then wakeUp() MODE1
\* equals its value before sleep().
C4_SleepWakeUpRestoresMode1 ==
    Landed =>
        /\ call.op = "sleep" => chip[PCA9685_MODE1] = WithBit(call.m1, 16)
        /\ call.op = "wakeUp" => chip[PCA9685_MODE1] = WithoutBit(call.m1, 16)
        /\ AfterSleepWakeUp => chip[PCA9685_MODE1] = lastSleep.m1

\* C4 amended: sleep() and wakeUp() each issue one write, of MODE1 as read
\* from the primary address with the SLEEP bit set, respectively cleared,
\* to the selected address.  With a selector that stands for the primary
\* address MODE1 takes that value, and after sleep() then wakeUp() it is the
\* value before sleep() with the SLEEP bit cleared: equal to the value
\* before sleep() exactly when SLEEP was clear then.
C4_SleepWakeUpChangeOnlySleepBit ==
    /\ call.op = "sleep" => Writes(wire) = << W(0, WithBit(call.m1, 16)) >>
    /\ call.op = "wakeUp" => Writes(wire) = << W(0, WithoutBit(call.m1, 16)) >>
    /\ (call.op = "sleep" /\ Landed) => chip[PCA9685_MODE1] = WithBit(call.m1, 16)
    /\ (call.op = "wakeUp" /\ Landed) => chip[PCA9685_MODE1] = WithoutBit(call.m1, 16)
    /\ (AfterSleepWakeUp /\ Landed)
           => /\ chip[PCA9685_MODE1] = WithoutBit(lastSleep.m1, 16)
              /\ (chip[PCA9685_MODE1] = lastSleep.m1) = ~HasBit(lastSleep.m1, 16)

\* sleep() then wakeUp() on the power-on MODE1 0x11, which has SLEEP set
C4_Witness ==
    /\ AfterSleepWakeUp /\ Landed
    /\ lastSleep.m1 = 17
    /\ call.m1 = 17
    /\ chip[PCA9685_MODE1] = 1

(***************************************************************************)
(* C5: setPWMOutput (SpecOutput)                                           *)
(***************************************************************************)
\* C5: setPWMOutput(channel, on, off) is exactly one bus transaction, to the
\* selected address: register 0x06 + 4 channel, then on & 0xFF,
\* (on >> 8) & 0xFF, off & 0xFF, (off >> 8) & 0xFF.
C5_SetPWMOutputBurst ==
    call.op = "setPWMOutput"
        => wire = << [t |-> "write", addr |-> StoredAddress(call.addressType),
                      bytes |-> << 6 + 4 * call.a1,
                                   call.a2 % 256, (call.a2 \div 256) % 256,
                                   call.a3 % 256, (call.a3 \div 256) % 256 >>] >>

\* channel 15, on = 0xABCD, off = 0x0800 through sub-call address 3
C5_Witness ==
    /\ call.op = "setPWMOutput" /\ call.addressType = "SubCall3"
    /\ call.a1 = 15 /\ call.a2 = 43981 /\ call.a3 = 2048
    /\ wire = << [t |-> "write", addr |-> 115, bytes |-> <<66, 205, 171, 0, 8>>] >>

(***************************************************************************)
(* C6: reading the frequency back (SpecReadback)                           *)
(***************************************************************************)
\* C6 as stated, for the selectors that stand for the primary address: once
\* setPWMFrequency has returned r and PRESCALE has not been written since,
\* getPWMFrequency returns r, and writes no register.
C6_ReadBackConsistent ==
    call.op = "getPWMFrequency"
        => /\ Writes(wire) = << >>
           /\ (readback.valid /\ ~readback.prescaleWritten /\ readback.landed)
                  => call.ret = readback.ret

\* C6 amended: once setPWMFrequency, called with a selector that stands for
\* the primary address, has returned r, PRESCALE has not been written since
\* and the cached oscillator frequency is the one that call used,
\* getPWMFrequency returns r; getPWMFrequency writes no register.
C6_ReadBackConsistentAtPrimary ==
    call.op = "getPWMFrequency"
        => /\ Writes(wire) = << >>
           /\ (/\ readback.valid /\ ~readback.prescaleWritten
               /\ readback.landed /\ readback.osc = _osillator_freq)
                  => call.ret = readback.ret

\* setPWMFrequency(50) returned 25000000 / (4096 * 122) = 50, then another
\* call, then getPWMFrequency returns 50 while PRESCALE held 30 at first
C6_Witness ==
    /\ call.op = "getPWMFrequency"
    /\ readback.valid /\ ~readback.prescaleWritten /\ readback.landed
    /\ readback.osc = _osillator_freq
    /\ chip[PCA9685_PRESCALE] = 121
    /\ call.ret = 50 /\ readback.ret = 50

(***************************************************************************)
(* C7: setOutputType (SpecOutputType)                                      *)
(***************************************************************************)
\* C7: setOutputType(TotemPole) leaves MODE2 with bit 2 set,
\* setOutputType(OpenDrain) with bit 2 cleared, every other bit as before
\* (for a selector that stands for the primary address).
C7_OutputTypeSetsOutdrv ==
    (call.op = "setOutputType" /\ Landed)
        => chip[PCA9685_MODE2] = IF call.a1 = TotemPole THEN WithBit(call.m2, 4)
                                 ELSE WithoutBit(call.m2, 4)

(***************************************************************************)
(* C8: address resolution (Spec)                                           *)
(***************************************************************************)
\* C8: every write transaction of a call goes to the stored address of the
\* call's selector: the primary address for Normal, 0x70 for AllCall, 0x71,
\* 0x72, 0x73 for SubCall1..3.
C8_WritesGoToSelectedAddress ==
    \A i \in DOMAIN wire :
        wire[i].t = "write" => wire[i].addr = StoredAddress(call.addressType)

\* setPWMFrequency through sub-call address 2: four writes, all to 0x72
C8_Witness ==
    /\ call.op = "setPWMFrequency" /\ call.addressType = "SubCall2"
    /\ Len(Writes(wire)) = 4
    /\ \A i \in DOMAIN wire : wire[i].t = "write" => wire[i].addr = 114

(***************************************************************************)
(* C9: the register sequence of setPWMFrequency (SpecPrescale)             *)
(***************************************************************************)
\* C9: with m the MODE1 value read at the start, setPWMFrequency writes, in
\* this order, MODE1 <- m with RESTART cleared and SLEEP set, PRESCALE <-
\* prescale, MODE1 <- m, MODE1 <- m | RESTART | AI; the PRESCALE write follows
\* a MODE1 write with SLEEP set, and MODE1 ends as m with RESTART and AI set.
C9_SetPWMFrequencySequence ==
    call.op = "setPWMFrequency"
        => /\ \E prescale \in 3..255 :
                 Writes(wire) = << W(0, WithBit(WithoutBit(call.m1, 128), 16)),
                                   W(254, prescale),
                                   W(0, call.m1),
                                   W(0, WithBit(WithBit(call.m1, 128), 32)) >>
           /\ HasBit(Writes(wire)[1].bytes[2], 16)
           /\ Landed => /\ chip[PCA9685_MODE1] = WithBit(WithBit(call.m1, 128), 32)
                        /\ HasBit(chip[PCA9685_MODE1], 16) = HasBit(call.m1, 16)
                        /\ chip[PCA9685_PRESCALE] = WrittenPrescale

\* MODE1 = 0xC1 (RESTART and EXTCLK set, awake), target 1000 Hz
C9_Witness ==
    /\ call.op = "setPWMFrequency" /\ call.addressType = "Normal"
    /\ call.m1 = 193 /\ call.a1 = 1000 * FreqDen
    /\ Writes(wire) = << W(0, 81), W(254, 5), W(0, 193), W(0, 225) >>
    /\ chip[PCA9685_MODE1] = 225

(***************************************************************************)
(* C10: the register sequence of setExtClock (SpecExtClock)                *)
(***************************************************************************)
\* the prescaler for an oscillator of osc Hz and a PWM frequency of
\* h / FreqDen Hz limited to [1, osc / 16384]; 255 when the limit is 0
ExtClockPrescale(osc, h) ==
    LET top == (osc \div 16384) * FreqDen
        lim == IF h < FreqDen THEN FreqDen ELSE IF h > top THEN top ELSE h
    IN  IF lim = 0 THEN 255 ELSE RoundedPrescale(osc, lim)

\* C10: setExtClock writes MODE1 with SLEEP set and RESTART cleared (EXTCLK
\* as it was), then MODE1 with EXTCLK set as well, then PRESCALE, in 3..255
\* and computed from the external frequency, which is the cached oscillator
\* frequency from then on, while the last MODE1 write still has SLEEP set,
\* then MODE1 with SLEEP cleared and RESTART, AI and EXTCLK set.
C10_SetExtClockSequence ==
    call.op = "setExtClock"
        => LET mode == WithBit(WithoutBit(call.m1, 128), 16)
               ws == Writes(wire)
           IN  /\ Len(ws) = 4
               /\ ws[1] = W(0, mode)
               /\ ws[2] = W(0, WithBit(mode, 64))
               /\ ws[3] = W(254, ExtClockPrescale(call.a1 \div FreqDen, call.a2))
               /\ ws[3].bytes[2] \in 3..255
               /\ HasBit(ws[1].bytes[2], 16) /\ ~HasBit(ws[1].bytes[2], 128)
               /\ HasBit(ws[1].bytes[2], 64) = HasBit(call.m1, 64)
               /\ HasBit(ws[2].bytes[2], 16) /\ HasBit(ws[2].bytes[2], 64)
               /\ ws[4] = W(0, WithBit(WithBit(WithBit(WithoutBit(call.m1, 16), 128),
                                               32), 64))
               /\ _osillator_freq = call.a1 \div FreqDen

\* MODE1 = 0x91, external clock 50 MHz, 200 Hz: prescale 60, MODE1 0xE1
C10_Witness ==
    /\ call.op = "setExtClock" /\ call.addressType = "Normal"
    /\ call.m1 = 145 /\ call.osc = 25000000
    /\ call.a1 = 50000000 * FreqDen + 1 /\ call.a2 = 200 * FreqDen
    /\ Writes(wire) = << W(0, 17), W(0, 81), W(254, 60), W(0, 225) >>
    /\ _osillator_freq = 50000000
    /\ chip[PCA9685_MODE1] = 225

====
